---- MODULE Spec2Model ----
(***************************************************************************)
(* Model of singularity.py: the Brightspace / Google Classroom mirror.     *)
(*                                                                         *)
(* Strings are sequences of pieces.  A title is a sequence of one-char     *)
(* strings; a locator (url_) is a sequence of tokens, the substrings the   *)
(* code's `in`, split and index tests look for.  A file or directory name  *)
(* is such a sequence, a path is a sequence of names.                      *)
(***************************************************************************)
EXTENDS Integers, Sequences, FiniteSets, TLC

VARIABLES
    args,       \* argparse result of the current invocation (-bs/-gc, -f, -nv, -gg)
    FORCE,      \* module global FORCE    ("None" until assigned)
    NO_VIDEO,   \* module global NO_VIDEO ("None" until assigned)
    creds,      \* module global creds: "unbound" until get_new_google_token binds it
    tokenJson,  \* TRUE when token.json holds usable Google credentials
    remote,     \* the remote course and whether the user passes -gg (never changed by the program)
    dirs,       \* local mirror: set of directory paths
    files,      \* local mirror: file path -> content
    pc,         \* "idle", "begin" ("all" with -bsa), "walk", "done", "aborted"; "sanitize", "sanitized" in SpecSan
    stack,      \* the walker's pending loops, innermost first
    run,        \* number of invocations started
    snap,       \* mirror and record of the previous finished invocation
    fetched,    \* ids of the leaves whose content was requested in this invocation
    trace,      \* ids of the nodes visited in this invocation, in order
    last,       \* what the last leaf call (download_bs_file / download_gc_file) did
    raised,     \* exception that ended the invocation, "none" otherwise
    envFault,   \* TRUE once the environment injected a network or disk failure
    san         \* last title sanitization: [raw, out]

vars == <<args, FORCE, NO_VIDEO, creds, tokenJson, remote, dirs, files, pc, stack,
          run, snap, fetched, trace, last, raised, envFault, san>>

----------------------------------------------------------------------------
(* Bounds *)

MaxTitleLen == 3
MaxRuns == 2

----------------------------------------------------------------------------
(* Generic sequence helpers (Python str semantics on sequences of pieces) *)

RECURSIVE SeqsUpTo(_, _)
SeqsUpTo(S, n) ==
    IF n = 0 THEN {<<>>}
    ELSE LET shorter == SeqsUpTo(S, n - 1)
         IN  shorter \cup {Append(s, c) : s \in {t \in shorter : Len(t) = n - 1}, c \in S}

Contains(s, x) == \E i \in 1..Len(s) : s[i] = x

\* index of the first / last occurrence of x in s, 0 when absent
FirstIndex(s, x) == IF Contains(s, x) THEN CHOOSE i \in 1..Len(s) : s[i] = x /\ \A j \in 1..(i-1) : s[j] # x ELSE 0
LastIndex(s, x) == IF Contains(s, x) THEN CHOOSE i \in 1..Len(s) : s[i] = x /\ \A j \in (i+1)..Len(s) : s[j] # x ELSE 0

\* s.split(x)[0] and s.split(x)[-1]
SplitFirst(s, x) == IF Contains(s, x) THEN SubSeq(s, 1, FirstIndex(s, x) - 1) ELSE s
SplitLast(s, x) == IF Contains(s, x) THEN SubSeq(s, LastIndex(s, x) + 1, Len(s)) ELSE s

\* s.split(x)[1]: defined only when x occurs in s (IndexError otherwise)
SplitSecond(s, x) == SplitFirst(SubSeq(s, FirstIndex(s, x) + 1, Len(s)), x)

----------------------------------------------------------------------------
(* Path Sanitizer *)

BANNED_CHARS == <<"<", ">", ":", "\"", "/", "\\", "|", "?", "*">>

Whitespace == {" ", "\t", "\n"}

RECURSIVE lstrip(_)
lstrip(s) == IF s # <<>> /\ Head(s) \in Whitespace THEN lstrip(Tail(s)) ELSE s

RECURSIVE rstrip(_)
rstrip(s) == IF s # <<>> /\ s[Len(s)] \in Whitespace THEN rstrip(SubSeq(s, 1, Len(s) - 1)) ELSE s

\* str.replace(c, '') with only the first occurrence removed
ReplaceFirstOnly(s, c) ==
    IF Contains(s, c)
    THEN SubSeq(s, 1, FirstIndex(s, c) - 1) \o SubSeq(s, FirstIndex(s, c) + 1, Len(s))
    ELSE s

\* title.replace(c, ''): every occurrence of c removed
Replace(s, c) == SelectSeq(s, LAMBDA x : x # c)

RECURSIVE RemoveBanned(_, _)
\* for c in BANNED_CHARS: title = title.replace(c, '')   (from the i-th banned char on)
RemoveBanned(s, i) ==
    IF i > Len(BANNED_CHARS) THEN s ELSE RemoveBanned(Replace(s, BANNED_CHARS[i]), i + 1)

\* Brightspace: title.lstrip().rstrip(), then the banned characters removed
Sanitize(raw) == RemoveBanned(rstrip(lstrip(raw)), 1)

\* Classroom file titles: the banned characters removed, no strip
SanitizeGc(raw) == RemoveBanned(raw, 1)

----------------------------------------------------------------------------
(* Locators.  The sample locators are the inputs the leaves are drawn from. *)

Missing == <<"$absent">>     \* the topic JSON has no 'Url' key / the material no link

UrlNative      == <<"/", "content", "/", "slides", ".", "pdf">>
UrlNativeVideo == <<"/", "content", "/", "lecture", ".", "mp4">>
UrlNativeNoExt == <<"/", "content", "/", "page">>
UrlDrive       == <<"https://", "drive.google.com", "/", "file", "/d/", "F1", "/", "view">>
UrlDriveOpen   == <<"https://", "drive.google.com", "/open?id=", "F1">>
UrlDriveFolder == <<"https://", "drive.google.com", "/", "drive", "/", "folders", "/", "F2">>
UrlDocExport   == <<"https://", "docs.google.com", "/", "document", "/d/", "D1", "/", "edit", "?usp=share_link", "&rtpof=true&sd=true">>
UrlDoc         == <<"https://", "docs.google.com", "/", "document", "/d/", "D2", "/", "edit">>
UrlSlides      == <<"https://", "docs.google.com", "/", "presentation", "/d/", "D3", "/", "edit">>
UrlSheet       == <<"https://", "docs.google.com", "/", "spreadsheet", "s", "/d/", "D4", "/", "edit">>
UrlForm        == <<"https://", "docs.google.com", "/", "forms", "/d/", "Q1", "/", "viewform">>
UrlYoutuBe     == <<"https://", "youtu.be", "/", "V1">>
UrlYoutube     == <<"https://", "www.", "youtube.com", "/", "watch?v=", "V2">>
UrlOther       == <<"https://", "example.com", "/", "page">>

VIDEO_EXTENSIONS == {"mp4", "mpg", "m4v", "mov", "mod", "avi", "3gp", "mkv"}

Truthy(flag) == flag = "True"

\* url_.split('/d/')[1].split('.')[0].split('&')[0].split('/')[0]
DriveIdAfter(url_, sep) ==
    SplitFirst(SplitFirst(SplitFirst(SplitSecond(url_, sep), "."), "&rtpof=true&sd=true"), "/")

\* lines 139-140: try '/d/', on IndexError '/open?id='; <<"IndexError">> when neither occurs
DriveFileId(url_) ==
    IF Contains(url_, "/d/") THEN DriveIdAfter(url_, "/d/")
    ELSE IF Contains(url_, "/open?id=") THEN DriveIdAfter(url_, "/open?id=")
    ELSE <<"IndexError">>

\* line 154 / 216: url_.split('/d/')[1].split('/')[0]
DocFileId(url_) ==
    IF Contains(url_, "/d/") THEN SplitFirst(SplitSecond(url_, "/d/"), "/") ELSE <<"IndexError">>

\* lines 149-151 / 210-212: the export format, "unbound" when no keyword matches
DocFormat(url_) ==
    IF Contains(url_, "document") THEN "docx"
    ELSE IF Contains(url_, "presentation") THEN "pptx"
    ELSE IF Contains(url_, "spreadsheet") THEN "xlsx"
    ELSE "unbound"

\* pytube: the video's title, as the video host reports it for the locator
YtTitle(url_) == <<url_[Len(url_)]>>

----------------------------------------------------------------------------
(* Local mirror *)

Downloads == <<"Downloads">>
COURSE_ID == <<"C", "1">>
CourseDir == <<Downloads, COURSE_ID>>

isfile(fs, p) == p \in DOMAIN fs

\* with open(p, 'wb') as f: f.write(content)
WriteFile(fs, p, content) == [q \in DOMAIN fs \cup {p} |-> IF q = p THEN content ELSE fs[q]]

\* open(p, 'a') followed by two writes of the line
AppendLineTwice(fs, p, line) ==
    [q \in DOMAIN fs \cup {p} |->
        IF q = p THEN (IF p \in DOMAIN fs THEN fs[p] ELSE <<>>) \o <<line, line>> ELSE fs[q]]

\* with open(p, 'a') as f: f.write(line + '\n')
AppendLine(fs, p, line) ==
    [q \in DOMAIN fs \cup {p} |-> IF q = p THEN (IF p \in DOMAIN fs THEN Append(fs[p], line) ELSE <<line>>) ELSE fs[q]]

\* os.remove(p), the FileNotFoundError swallowed by the caller
RemoveFile(fs, p) == [q \in DOMAIN fs \ {p} |-> fs[q]]

\* What open(p, 'wb') raises: a name holding a path separator names a directory that
\* does not exist, a directory cannot be opened for writing, and the disk may refuse.
OpenError(ds, p, disk) ==
    IF Contains(p[Len(p)], "/") THEN "FileNotFoundError"
    ELSE IF p \in ds THEN "IsADirectoryError"
    ELSE disk

Body(leaf) == <<<<"bytes of", leaf.Id>>>>

----------------------------------------------------------------------------
(* Google sign-in *)

\* line 89: the condition under which get_google_token signs in at all
GoogleSignIn == args.classroom \/ args.google

\* get_google_token / get_new_google_token.  Credentials read from a usable token.json
\* are bound to a local of get_google_token; only get_new_google_token, run when
\* token.json is unusable, binds the global creds (and rewrites token.json).
get_google_token ==
    [creds     |-> IF GoogleSignIn /\ ~tokenJson THEN "bound" ELSE creds,
     tokenJson |-> tokenJson \/ GoogleSignIn]

NoSignIn == [creds |-> creds, tokenJson |-> tokenJson]

----------------------------------------------------------------------------
(* One leaf call.  A result records the mirror after the call, the Google    *)
(* state, whether content was requested, the exception that left the call    *)
(* ("none" when it returned), the branch taken and the failure met.          *)

Res(fs, tk, fetch, exc, branch, fault) ==
    [files |-> fs, creds |-> tk.creds, tokenJson |-> tk.tokenJson, fetch |-> fetch,
     raised |-> exc, branch |-> branch, fault |-> fault]

NetOutcomes == {"ok", "ConnectionError"}
DiskOutcomes == {"ok", "PermissionError", "FileNotFoundError"}

FaultOf(target, disk) == IF OpenError(dirs, target, disk) = disk THEN "disk" ELSE "path"

\* lines 141-145 / 156-160: token, authenticated request, write; only KeyError is caught
BsCloudFetch(leaf, target, branch, net, disk) ==
    LET tk == get_google_token
        err == OpenError(dirs, target, disk)
    IN  IF tk.creds = "unbound" THEN Res(files, tk, FALSE, "NameError", branch, "token")
        ELSE IF net # "ok" THEN Res(files, tk, TRUE, net, branch, "net")
        ELSE IF err # "ok" THEN Res(files, tk, TRUE, err, branch, FaultOf(target, disk))
        ELSE Res(WriteFile(files, target, Body(leaf)), tk, TRUE, "none", branch, "none")

\* lines 123-132: a file on the Brightspace CDN
BsNative(leaf, path, title0, net, disk) ==
    LET url_   == leaf.Url
        title  == title0 \o <<".">> \o SplitLast(url_, ".")
        target == Append(path, title)
        err    == OpenError(dirs, target, disk)
    IN  IF (~isfile(files, target)) \/ Truthy(FORCE)
        THEN IF SplitLast(title, ".") \in {<<e>> : e \in VIDEO_EXTENSIONS} /\ Truthy(NO_VIDEO)
             THEN Res(files, NoSignIn, FALSE, "none", "native", "none")
             ELSE IF net # "ok" THEN Res(files, NoSignIn, TRUE, net, "native", "net")
             ELSE IF err # "ok" THEN Res(files, NoSignIn, TRUE, "none", "native", FaultOf(target, disk))
             ELSE Res(WriteFile(files, target, Body(leaf)), NoSignIn, TRUE, "none", "native", "none")
        ELSE Res(files, NoSignIn, FALSE, "none", "native", "none")

\* lines 136-145: a file on Google Drive, or a Google Docs link with export parameters
BsDrive(leaf, path, title, net, disk) ==
    LET url_   == leaf.Url
        target == Append(path, title)
    IN  IF (~(isfile(files, target) \/ isfile(files, Append(path, title \o <<".", "mp4">>)))) \/ Truthy(FORCE)
        THEN IF DriveFileId(url_) = <<"IndexError">>
             THEN Res(files, NoSignIn, FALSE, "IndexError", "drive", "fileid")
             ELSE BsCloudFetch(leaf, target, "drive", net, disk)
        ELSE Res(files, NoSignIn, FALSE, "none", "drive", "none")

\* lines 148-161: a Google Doc, Sheet or Slide
BsDoc(leaf, path, title, net, disk) ==
    LET url_   == leaf.Url
        ff     == DocFormat(url_)
        target == Append(path, title \o <<".", ff>>)
    IN  IF ff = "unbound" THEN Res(files, NoSignIn, FALSE, "none", "doc", "mime")
        ELSE IF (~isfile(files, target)) \/ Truthy(FORCE)
        THEN IF DocFileId(url_) = <<"IndexError">>
             THEN Res(files, NoSignIn, FALSE, "IndexError", "doc", "fileid")
             ELSE BsCloudFetch(leaf, target, "doc", net, disk)
        ELSE Res(files, NoSignIn, FALSE, "none", "doc", "none")

\* lines 166-171: a YouTube video; every exception is swallowed; FORCE is not consulted
BsVideo(leaf, path, net, disk) ==
    LET target == Append(path, YtTitle(leaf.Url) \o <<".", "mp4">>)
        err    == OpenError(dirs, target, disk)
    IN  IF net # "ok" THEN Res(files, NoSignIn, FALSE, "none", "video", "net")
        ELSE IF ~isfile(files, target)
        THEN IF err # "ok" THEN Res(files, NoSignIn, TRUE, "none", "video", FaultOf(target, disk))
             ELSE Res(WriteFile(files, target, Body(leaf)), NoSignIn, TRUE, "none", "video", "none")
        ELSE Res(files, NoSignIn, FALSE, "none", "video", "none")

\* lines 174-176: not handled; the locator is appended to nothandled.txt of the directory
BsNotHandled(leaf, path, disk) ==
    LET target == Append(path, <<"nothandled.txt">>)
        err    == OpenError(dirs, target, disk)
    IN  IF err # "ok" THEN Res(files, NoSignIn, FALSE, err, "nothandled", FaultOf(target, disk))
        ELSE Res(AppendLine(files, target, leaf.Url), NoSignIn, FALSE, "none", "nothandled", "none")

\* line 165: "youtu.be" in url_ or "youtube.com" in url_ and not NO_VIDEO
\* (Python binds `and` tighter than `or`)
BsIsVideo(url_) ==
    Contains(url_, "youtu.be") \/ (Contains(url_, "youtube.com") /\ ~Truthy(NO_VIDEO))

\* download_bs_file(file_, path, COURSE_ID)
download_bs_file(file_, path, net, disk) ==
    LET url_  == file_.Url
        title == Sanitize(file_.Title)
    IN  IF url_ = Missing THEN Res(files, NoSignIn, FALSE, "KeyError", "none", "nourl")
        ELSE IF url_ = <<>> THEN Res(files, NoSignIn, FALSE, "IndexError", "none", "nourl")
        ELSE IF Head(url_) = "/" THEN BsNative(file_, path, title, net, disk)
        ELSE IF Contains(url_, "drive.google.com")
                \/ (Contains(url_, "docs.google.com") /\ Contains(url_, "&rtpof=true&sd=true"))
             THEN BsDrive(file_, path, title, net, disk)
        ELSE IF Contains(url_, "docs.google.com") THEN BsDoc(file_, path, title, net, disk)
        ELSE IF BsIsVideo(url_) THEN BsVideo(file_, path, net, disk)
        ELSE BsNotHandled(file_, path, disk)

----------------------------------------------------------------------------
(* One Classroom material *)

RECURSIVE PathLine(_)
\* f"{path}{title}.{ff}": the path as one string
PathLine(p) == IF p = <<>> THEN <<>> ELSE <<"/">> \o Head(p) \o PathLine(Tail(p))

ErrorsTxt == <<Downloads, COURSE_ID, <<"errors.txt">>>>

\* lines 215-226: export of a Google Doc, Sheet or Slide
GcDoc(m, path, title, net, disk) ==
    LET url_   == m.Url
        ff     == DocFormat(url_)
        target == Append(path, title \o <<".", ff>>)
        tk     == get_google_token
        err    == OpenError(dirs, target, disk)
    IN  IF ff = "unbound" THEN Res(files, NoSignIn, FALSE, "none", "doc", "mime")
        ELSE IF (~isfile(files, target)) \/ Truthy(FORCE)
        THEN IF DocFileId(url_) = <<"IndexError">>
             THEN Res(files, NoSignIn, FALSE, "IndexError", "doc", "fileid")
             ELSE IF tk.creds = "unbound" THEN Res(files, tk, FALSE, "NameError", "doc", "token")
             ELSE IF net # "ok" THEN Res(files, tk, TRUE, net, "doc", "net")
             ELSE IF err = "FileNotFoundError"
                  THEN Res(AppendLine(files, ErrorsTxt, PathLine(target)), tk, TRUE, "none", "doc", FaultOf(target, disk))
             ELSE IF err # "ok" THEN Res(files, tk, TRUE, err, "doc", FaultOf(target, disk))
             ELSE Res(WriteFile(files, target, Body(m)), tk, TRUE, "none", "doc", "none")
        ELSE Res(files, NoSignIn, FALSE, "none", "doc", "none")

\* lines 231-243: a file on Google Drive.  The FileNotFoundError handler formats its
\* message with ff, which this branch never binds: it raises UnboundLocalError.
GcDrive(m, path, title, net, disk) ==
    LET url_   == m.Url
        target == Append(path, title)
        tk     == get_google_token
        err    == OpenError(dirs, target, disk)
    IN  IF (~(isfile(files, target) \/ isfile(files, Append(path, title \o <<".", "mp4">>)))) \/ Truthy(FORCE)
        THEN IF DriveFileId(url_) = <<"IndexError">>
             THEN Res(files, NoSignIn, FALSE, "IndexError", "drive", "fileid")
             ELSE IF tk.creds = "unbound" THEN Res(files, tk, FALSE, "NameError", "drive", "token")
             ELSE IF net # "ok" THEN Res(files, tk, TRUE, net, "drive", "net")
             ELSE IF err = "FileNotFoundError"
                  THEN Res(files, tk, TRUE, "UnboundLocalError", "drive", FaultOf(target, disk))
             ELSE IF err # "ok" THEN Res(files, tk, TRUE, err, "drive", FaultOf(target, disk))
             ELSE Res(WriteFile(files, target, Body(m)), tk, TRUE, "none", "drive", "none")
        ELSE Res(files, NoSignIn, FALSE, "none", "drive", "none")

\* lines 248-257: a YouTube video; every exception of the download is swallowed
GcVideo(m, path, net, disk) ==
    LET t      == YtTitle(m.Url)
        target == Append(path, t \o <<".", "mp4">>)
        err    == OpenError(dirs, target, disk)
    IN  IF net # "ok" THEN Res(files, NoSignIn, FALSE, "none", "video", "net")
        ELSE IF \A e \in {"mp4", "mov", "m4v", "mkv"} : ~isfile(files, Append(path, t \o <<".", e>>))
        THEN IF err # "ok" THEN Res(files, NoSignIn, TRUE, "none", "video", FaultOf(target, disk))
             ELSE Res(WriteFile(files, target, Body(m)), NoSignIn, TRUE, "none", "video", "none")
        ELSE Res(files, NoSignIn, FALSE, "none", "video", "none")

\* download_gc_file(m, path, CLASS_ID)
download_gc_file(m, path, net, disk) ==
    LET url_  == m.Url
        title == SanitizeGc(m.Title)
    IN  IF m.Kind = "driveFile"
        THEN \* lines 204-205, 244: a missing key is reported with the link, itself a key
             IF url_ = Missing THEN Res(files, NoSignIn, FALSE, "KeyError", "none", "nourl")
             ELSE IF m.Title = Missing THEN Res(files, NoSignIn, FALSE, "none", "none", "deleted")
             ELSE IF Contains(url_, "docs.google.com") THEN GcDoc(m, path, title, net, disk)
             ELSE IF (Contains(url_, "drive.google.com") /\ ~Contains(url_, "folders"))
                     \/ (Contains(url_, "docs.google.com") /\ Contains(url_, "&rtpof=true&sd=true"))
                  THEN GcDrive(m, path, title, net, disk)
             ELSE Res(files, NoSignIn, FALSE, "none", "none", "none")
        ELSE IF m.Kind = "youtubeVideo"
        THEN IF url_ = Missing THEN Res(files, NoSignIn, FALSE, "KeyError", "none", "nourl")
             ELSE IF m.Title = Missing THEN Res(files, NoSignIn, FALSE, "none", "none", "deleted")
             ELSE GcVideo(m, path, net, disk)
        ELSE \* lines 260-261: print_warn only
             Res(files, NoSignIn, FALSE, "none", "nothandled", "none")

----------------------------------------------------------------------------
(* The remote course.  A node is [Type, Kind, Id, Title, Url, Structure]:         *)
(* Brightspace modules and folders have Type = 0, topics Type = 1 (a['Type']);    *)
(* a Classroom material has Kind "driveFile", "youtubeVideo" or "link".           *)

Node(type, kind, id, title, url, kids) ==
    [Type |-> type, Kind |-> kind, Id |-> id, Title |-> title, Url |-> url, Structure |-> kids]

Topic(id, title, url) == Node(1, "topic", id, title, url, <<>>)
Module(id, title, kids) == Node(0, "module", id, title, <<>>, kids)
Material(kind, id, title, url) == Node(1, kind, id, title, url, <<>>)

NoLeaf == Node(1, "none", "none", <<>>, <<>>, <<>>)

BsLocators ==
    {Missing, UrlNative, UrlNativeVideo, UrlNativeNoExt, UrlDrive, UrlDriveOpen, UrlDriveFolder,
     UrlDocExport, UrlDoc, UrlSlides, UrlSheet, UrlForm, UrlYoutuBe, UrlYoutube, UrlOther}

\* The Brightspace courses checked: two modules, the first holding the locator u in a
\* topic of its own or of a folder, followed by a topic on the CDN; the second empty.
BsCourse(u, nested) ==
    <<Module("m1", <<" ", "M", "?", "1">>,
        <<IF nested THEN Module("f", <<"F", " ">>, <<Topic("b", <<"b">>, u)>>)
                    ELSE Topic("a", <<"a", "*">>, u),
          Topic("c", <<"c">>, UrlNative)>>),
      Module("m2", <<"M", "2">>, <<>>)>>

GcMaterials ==
    {Material("driveFile", "g", <<"g", "?">>, u) :
         u \in {Missing, UrlDrive, UrlDriveOpen, UrlDriveFolder, UrlDocExport, UrlDoc, UrlSlides, UrlForm}}
    \cup {Material("driveFile", "g", Missing, UrlDrive),
          Material("youtubeVideo", "g", <<"g">>, UrlYoutube),
          Material("youtubeVideo", "g", <<"g">>, Missing),
          Material("link", "g", <<"g">>, UrlOther)}

\* A Classroom post: its id, title, topicId and attached materials
Post(id, title, topic, mats) == [id |-> id, title |-> title, topicId |-> topic, materials |-> mats]

\* The Classroom courses checked: one announcement with a link, one material post
\* under a topic with the material m followed by a Drive file, no classwork.
GcCourse(m) ==
    [announcements      |-> <<Post(<<"9">>, <<>>, "none", <<Material("link", "k", <<"k">>, UrlOther)>>)>>,
     topic              |-> [t1 |-> <<"T", ":">>],
     courseWorkMaterial |-> <<Post(<<"8">>, <<"P", "/">>, "t1", <<m, Material("driveFile", "h", <<"h">>, UrlDrive)>>)>>,
     courseWork         |-> <<>>]

Remotes ==
    {[platform |-> "bs", google |-> g, modules |-> BsCourse(u, n),
      gc |-> GcCourse(Material("link", "g", <<"g">>, UrlOther))] :
         u \in BsLocators, n \in BOOLEAN, g \in BOOLEAN}
    \cup {[platform |-> "gc", google |-> FALSE, modules |-> <<>>, gc |-> GcCourse(m)] : m \in GcMaterials}

----------------------------------------------------------------------------
(* State *)

PyBool(b) == IF b THEN "True" ELSE "False"

NoArgs == [brightspace |-> FALSE, classroom |-> FALSE, force |-> FALSE, novideo |-> FALSE, google |-> FALSE]

NoFiles == [q \in {} |-> <<>>]

NoLast ==
    [leaf |-> NoLeaf, path |-> <<>>, branch |-> "none", fault |-> "none", fetch |-> FALSE,
     raised |-> "none", before |-> NoFiles, after |-> NoFiles]

NoSnap == [files |-> NoFiles, dirs |-> {}, args |-> NoArgs, pc |-> "none", fetched |-> {}]

NoSan == [raw |-> <<>>, out |-> <<>>]

\* "if not os.path.exists('./Downloads'): os.makedirs('./Downloads')" has run (line 86)
Init ==
    /\ remote \in Remotes
    /\ tokenJson \in BOOLEAN
    /\ args = NoArgs
    /\ FORCE = "None"
    /\ NO_VIDEO = "None"
    /\ creds = "unbound"
    /\ dirs = {<<Downloads>>}
    /\ files = NoFiles
    /\ pc = "idle"
    /\ stack = <<>>
    /\ run = 0
    /\ snap = NoSnap
    /\ fetched = {}
    /\ trace = <<>>
    /\ last = NoLast
    /\ raised = "none"
    /\ envFault = FALSE
    /\ san = NoSan

----------------------------------------------------------------------------
(* The walker.  A frame is one pending for-loop: the directory it works in and  *)
(* the items it has still to visit.                                             *)

Frame(kind, path, sect, todo) == [kind |-> kind, path |-> path, sect |-> sect, todo |-> todo]

Top == stack[1]

\* the innermost loop moves on to its next item
Advance == <<[Top EXCEPT !.todo = Tail(@)]>> \o Tail(stack)

\* f'{path}{title}/': an empty title names the directory itself
Dir(path, title) == IF title = <<>> THEN path ELSE Append(path, title)

exists(p) == p \in dirs \/ p \in DOMAIN files

IndexHtml(node) == <<node.Title, <<"Description of", node.Id>>>>

\* The script run once from the command line (lines 59, 81-84, 638-664) with
\* check_brightspace_args (456-481) or check_google_args (483-488).
\* check_google_args assigns a local FORCE: the global keeps its None.
\* Since the last invocation token.json may have been revoked or deleted.
StartRun(force, novideo, revoked) ==
    /\ pc \in {"idle", "done", "aborted"}
    /\ run < MaxRuns
    /\ LET bs     == remote.platform = "bs"
           google == remote.google
           signIn == (~bs) \/ google
           usable == tokenJson /\ ~revoked
       IN  /\ args' = [brightspace |-> bs, classroom |-> ~bs, force |-> force,
                       novideo |-> novideo, google |-> google]
           /\ FORCE' = IF bs THEN PyBool(force) ELSE "None"
           /\ NO_VIDEO' = IF bs THEN PyBool(novideo) ELSE "None"
           /\ creds' = IF signIn /\ ~usable THEN "bound" ELSE "unbound"
           /\ tokenJson' = (usable \/ signIn)
    /\ pc' = "begin"
    /\ run' = run + 1
    /\ snap' = [files |-> files, dirs |-> dirs, args |-> args, pc |-> pc, fetched |-> fetched]
    /\ stack' = <<>>
    /\ fetched' = {}
    /\ trace' = <<>>
    /\ last' = NoLast
    /\ raised' = "none"
    /\ UNCHANGED <<remote, dirs, files, envFault, san>>

\* download_brightspace with the snapshot of line 288 taken before the listing is
\* parsed: info.json is written whether or not the parse succeeds
BsBeginSnapshotFirst(rootOk) ==
    /\ pc = "begin"
    /\ args.brightspace
    /\ dirs' = dirs \cup {CourseDir}
    /\ IF rootOk
       THEN /\ files' = WriteFile(WriteFile(WriteFile(WriteFile(files,
                            Append(CourseDir, <<"brightspace.ct">>), <<>>),
                            Append(CourseDir, <<"info.json">>), <<<<"modules">>>>),
                            Append(CourseDir, <<"classlist.json">>), <<<<"classlist">>>>),
                            Append(CourseDir, <<"announcements.html">>), <<<<"announcements">>>>)
            /\ stack' = <<Frame("modules", CourseDir, "none", remote.modules)>>
            /\ pc' = "walk"
            /\ raised' = "none"
       ELSE /\ files' = WriteFile(WriteFile(files,
                            Append(CourseDir, <<"brightspace.ct">>), <<>>),
                            Append(CourseDir, <<"info.json">>), <<<<"unparsed">>>>)
            /\ stack' = <<>>
            /\ pc' = "aborted"
            /\ raised' = "SystemExit"
    /\ UNCHANGED <<args, FORCE, NO_VIDEO, creds, tokenJson, remote, run, snap, fetched,
                   trace, last, envFault, san>>

\* download_brightspace, lines 265-298: base folder, marker, root listing, snapshots
BsBegin(rootOk) ==
    /\ pc = "begin"
    /\ args.brightspace
    /\ dirs' = dirs \cup {CourseDir}
    /\ IF rootOk
       THEN /\ files' = WriteFile(WriteFile(WriteFile(WriteFile(files,
                            Append(CourseDir, <<"brightspace.ct">>), <<>>),
                            Append(CourseDir, <<"info.json">>), <<<<"modules">>>>),
                            Append(CourseDir, <<"classlist.json">>), <<<<"classlist">>>>),
                            Append(CourseDir, <<"announcements.html">>), <<<<"announcements">>>>)
            /\ stack' = <<Frame("modules", CourseDir, "none", remote.modules)>>
            /\ pc' = "walk"
            /\ raised' = "none"
       ELSE /\ files' = WriteFile(files, Append(CourseDir, <<"brightspace.ct">>), <<>>)
            /\ stack' = <<>>
            /\ pc' = "aborted"
            /\ raised' = "SystemExit"
    /\ UNCHANGED <<args, FORCE, NO_VIDEO, creds, tokenJson, remote, run, snap, fetched,
                   trace, last, envFault, san>>

\* download_brightspace, lines 301-313: the next top-level module.  On an existing
\* directory line 312 removes f'{COURSE_ID}/{title}/nothandled.txt', a path that is
\* not under ./Downloads.
\* The loop's frame holds the course's base folder ./Downloads/{COURSE_ID}.
BsModule ==
    /\ pc = "walk"
    /\ stack # <<>>
    /\ Top.kind = "modules"
    /\ Top.todo # <<>>
    /\ LET i     == Head(Top.todo)
           title == Sanitize(i.Title)
           dir   == Dir(Top.path, title)
       IN  /\ IF exists(dir)
              THEN /\ files' = RemoveFile(files, <<Top.path[2], title, <<"nothandled.txt">>>>)
                   /\ dirs' = dirs
              ELSE /\ files' = WriteFile(files, Append(dir, <<"index.html">>), IndexHtml(i))
                   /\ dirs' = dirs \cup {dir}
           /\ stack' = <<Frame("structure", dir, "none", i.Structure)>> \o Advance
           /\ trace' = Append(trace, i.Id)
           /\ san' = [raw |-> i.Title, out |-> title]
    /\ UNCHANGED <<args, FORCE, NO_VIDEO, creds, tokenJson, remote, pc, run, snap, fetched,
                   last, raised, envFault>>

\* download_bs_folder with the recursion of line 196 put off: the folder's children
\* are visited after everything else that is pending
BsFolderDeferred ==
    /\ pc = "walk"
    /\ stack # <<>>
    /\ Top.kind = "structure"
    /\ Top.todo # <<>>
    /\ Head(Top.todo).Type = 0
    /\ LET folder == Head(Top.todo)
           title  == Sanitize(folder.Title)
           dir    == Dir(Top.path, title)
       IN  /\ IF exists(dir)
              THEN /\ files' = RemoveFile(files, Append(dir, <<"nothandled.txt">>))
                   /\ dirs' = dirs
              ELSE /\ files' = WriteFile(files, Append(dir, <<"index.html">>), IndexHtml(folder))
                   /\ dirs' = dirs \cup {dir}
           /\ stack' = Advance \o <<Frame("structure", dir, "none", folder.Structure)>>
           /\ trace' = Append(trace, folder.Id)
           /\ san' = [raw |-> folder.Title, out |-> title]
    /\ UNCHANGED <<args, FORCE, NO_VIDEO, creds, tokenJson, remote, pc, run, snap, fetched,
                   last, raised, envFault>>

\* download_bs_folder, lines 180-193, called at line 196 or 316 for a child of Type 0
BsFolder ==
    /\ pc = "walk"
    /\ stack # <<>>
    /\ Top.kind = "structure"
    /\ Top.todo # <<>>
    /\ Head(Top.todo).Type = 0
    /\ LET folder == Head(Top.todo)
           title  == Sanitize(folder.Title)
           dir    == Dir(Top.path, title)
       IN  /\ IF exists(dir)
              THEN /\ files' = RemoveFile(files, Append(dir, <<"nothandled.txt">>))
                   /\ dirs' = dirs
              ELSE /\ files' = WriteFile(files, Append(dir, <<"index.html">>), IndexHtml(folder))
                   /\ dirs' = dirs \cup {dir}
           /\ stack' = <<Frame("structure", dir, "none", folder.Structure)>> \o Advance
           /\ trace' = Append(trace, folder.Id)
           /\ san' = [raw |-> folder.Title, out |-> title]
    /\ UNCHANGED <<args, FORCE, NO_VIDEO, creds, tokenJson, remote, pc, run, snap, fetched,
                   last, raised, envFault>>

\* The effect of one leaf call with result r on the state
Leaf(leaf, r) ==
    /\ files' = r.files
    /\ creds' = r.creds
    /\ tokenJson' = r.tokenJson
    /\ fetched' = IF r.fetch THEN fetched \cup {leaf.Id} ELSE fetched
    /\ trace' = Append(trace, leaf.Id)
    /\ last' = [leaf |-> leaf, path |-> Top.path, branch |-> r.branch, fault |-> r.fault,
                fetch |-> r.fetch, raised |-> r.raised, before |-> files, after |-> r.files]
    /\ raised' = r.raised
    /\ envFault' = (envFault \/ r.fault \in {"net", "disk"})
    /\ IF r.raised = "none"
       THEN pc' = pc /\ stack' = Advance
       ELSE pc' = "aborted" /\ stack' = <<>>
    /\ UNCHANGED <<args, FORCE, NO_VIDEO, remote, dirs, run, snap>>

\* download_bs_file, lines 115-176, called at line 197 or 317 for a child of another Type
BsFile(net, disk) ==
    /\ pc = "walk"
    /\ stack # <<>>
    /\ Top.kind = "structure"
    /\ Top.todo # <<>>
    /\ Head(Top.todo).Type # 0
    /\ (net = "ok" /\ disk = "ok") \/ ~envFault
    /\ LET file_ == Head(Top.todo)
       IN  /\ Leaf(file_, download_bs_file(file_, Top.path, net, disk))
           /\ san' = IF file_.Url = Missing THEN san
                     ELSE [raw |-> file_.Title, out |-> Sanitize(file_.Title)]

\* A for-loop has no items left: control returns to the enclosing loop
Return ==
    /\ pc = "walk"
    /\ stack # <<>>
    /\ Top.todo = <<>>
    /\ stack' = Tail(stack)
    /\ UNCHANGED <<args, FORCE, NO_VIDEO, creds, tokenJson, remote, dirs, files, pc, run,
                   snap, fetched, trace, last, raised, envFault, san>>

\* The outermost loop has returned: the invocation ends normally
Finish ==
    /\ pc = "walk"
    /\ stack = <<>>
    /\ pc' = "done"
    /\ UNCHANGED <<args, FORCE, NO_VIDEO, creds, tokenJson, remote, dirs, files, stack, run,
                   snap, fetched, trace, last, raised, envFault, san>>

----------------------------------------------------------------------------
(* Google Classroom *)

\* mat.replace('\n', ' ')
ReplaceNewline(t) == [k \in DOMAIN t |-> IF t[k] = "\n" THEN " " ELSE t[k]]

\* download_classroom, lines 322-343: base folder, marker, errors.txt removed, and
\* the first authenticated request, which reads the global creds
GcBegin ==
    /\ pc = "begin"
    /\ args.classroom
    /\ dirs' = dirs \cup {CourseDir}
    /\ IF creds = "unbound"
       THEN /\ files' = RemoveFile(WriteFile(files, Append(CourseDir, <<"classroom.ct">>), <<>>), ErrorsTxt)
            /\ stack' = <<>>
            /\ pc' = "aborted"
            /\ raised' = "NameError"
       ELSE /\ files' = WriteFile(WriteFile(WriteFile(
                            RemoveFile(WriteFile(files, Append(CourseDir, <<"classroom.ct">>), <<>>), ErrorsTxt),
                            Append(CourseDir, <<"info.json">>), <<<<"course">>>>),
                            Append(CourseDir, <<"classlist.json">>), <<<<"students">>>>),
                            Append(CourseDir, <<"teacherlist.json">>), <<<<"teachers">>>>)
            /\ stack' = <<Frame("sections", CourseDir, "none", <<"Announcements", "Materials", "Classwork">>)>>
            /\ pc' = "walk"
            /\ raised' = "none"
    /\ UNCHANGED <<args, FORCE, NO_VIDEO, creds, tokenJson, remote, run, snap, fetched,
                   trace, last, envFault, san>>

\* the listing of a section and the JSON snapshots written before its loop
SectionPosts(sect) ==
    IF sect = "Announcements" THEN remote.gc.announcements
    ELSE IF sect = "Materials" THEN remote.gc.courseWorkMaterial
    ELSE remote.gc.courseWork

SectionFiles(sect) ==
    IF sect = "Announcements" THEN WriteFile(files, Append(CourseDir, <<"announcements.json">>), <<<<"announcements">>>>)
    ELSE IF sect = "Materials"
         THEN WriteFile(WriteFile(files, Append(CourseDir, <<"topics.json">>), <<<<"topics">>>>),
                        Append(CourseDir, <<"materials.json">>), <<<<"materials">>>>)
    ELSE WriteFile(files, Append(CourseDir, <<"coursework.json">>), <<<<"coursework">>>>)

\* download_classroom, lines 345-350, 369-386, 409-415: the next of the three sections
GcSection ==
    /\ pc = "walk"
    /\ stack # <<>>
    /\ Top.kind = "sections"
    /\ Top.todo # <<>>
    /\ LET sect == Head(Top.todo)
       IN  /\ files' = SectionFiles(sect)
           /\ stack' = <<Frame("posts", Append(CourseDir, <<sect>>), sect, SectionPosts(sect))>> \o Advance
    /\ UNCHANGED <<args, FORCE, NO_VIDEO, creds, tokenJson, remote, dirs, pc, run, snap,
                   fetched, trace, last, raised, envFault, san>>

\* lines 372-378 and 388-389: the post's topic name, banned characters removed
TopicName(i) ==
    IF i.topicId \in DOMAIN remote.gc.topic THEN SanitizeGc(remote.gc.topic[i.topicId])
    ELSE <<"NO TOPIC">>

\* lines 351-362, 387-402, 416-431: the directories of one post with materials
GcPost ==
    /\ pc = "walk"
    /\ stack # <<>>
    /\ Top.kind = "posts"
    /\ Top.todo # <<>>
    /\ LET i    == Head(Top.todo)
           sdir == Top.path
           mat  == SanitizeGc(ReplaceNewline(IF Top.sect = "Announcements" THEN i.id ELSE i.title))
           tdir == IF Top.sect = "Announcements" THEN sdir ELSE Append(sdir, TopicName(i))
           path == Dir(tdir, mat)
       IN  IF i.materials = <<>>
           THEN /\ stack' = Advance
                /\ UNCHANGED <<dirs, trace>>
           ELSE /\ dirs' = dirs \cup {sdir, tdir, path}
                /\ stack' = <<Frame("materials", path, Top.sect, i.materials)>> \o Advance
                /\ trace' = Append(trace, i.id[1])
    /\ UNCHANGED <<args, FORCE, NO_VIDEO, creds, tokenJson, remote, files, pc, run, snap,
                   fetched, last, raised, envFault, san>>

\* download_gc_file, lines 201-261, called at line 366, 406 or 435
GcFile(net, disk) ==
    /\ pc = "walk"
    /\ stack # <<>>
    /\ Top.kind = "materials"
    /\ Top.todo # <<>>
    /\ (net = "ok" /\ disk = "ok") \/ ~envFault
    /\ LET m == Head(Top.todo)
       IN  Leaf(m, download_gc_file(m, Top.path, net, disk))
    /\ UNCHANGED san

----------------------------------------------------------------------------

Next ==
    \/ \E force, novideo, revoked \in BOOLEAN : StartRun(force, novideo, revoked)
    \/ \E rootOk \in BOOLEAN : BsBegin(rootOk)
    \/ BsModule
    \/ BsFolder
    \/ \E net \in NetOutcomes, disk \in DiskOutcomes : BsFile(net, disk)
    \/ GcBegin
    \/ GcSection
    \/ GcPost
    \/ \E net \in NetOutcomes, disk \in DiskOutcomes : GcFile(net, disk)
    \/ Return
    \/ Finish

Spec == Init /\ [][Next]_vars

----------------------------------------------------------------------------
(* The remote course retitled between two invocations: the listings of lines    *)
(* 278 and 184 are read anew by every invocation, and a container's title may   *)
(* by then have gained a banned character.                                      *)

\* s with the piece c put in at position k
InsertAt(s, k, c) == SubSeq(s, 1, k - 1) \o <<c>> \o SubSeq(s, k, Len(s))

RECURSIVE Retitled(_, _, _, _)
\* the listing with c put in at position k of the title of container id
Retitled(nodes, id, k, c) ==
    IF nodes = <<>> THEN <<>>
    ELSE LET n == Head(nodes)
             t == IF n.Type = 0 /\ n.Id = id /\ k <= Len(n.Title) + 1
                  THEN InsertAt(n.Title, k, c) ELSE n.Title
         IN  <<[n EXCEPT !.Title = t, !.Structure = Retitled(n.Structure, id, k, c)]>>
                 \o Retitled(Tail(nodes), id, k, c)

ContainerIds == {"m1", "m2", "f"}
GainedChars == {"?"}

\* the courses whose second invocation may see a retitled container
RetitleRemotes ==
    {r \in Remotes : \/ r.platform = "bs" /\ ~r.google
                        /\ \E n \in BOOLEAN : r.modules \in {BsCourse(UrlNative, n), BsCourse(UrlOther, n)}
                     \/ r.platform = "gc" /\ r.gc = GcCourse(Material("link", "g", <<"g">>, UrlOther))}

\* after a completed invocation the title of one container gains one banned character
Retitle(id, c) ==
    /\ pc = "done"
    /\ run < MaxRuns
    /\ remote \in RetitleRemotes
    /\ remote.platform = "bs"
    /\ \E k \in 1..(MaxTitleLen + 2) :
           /\ Retitled(remote.modules, id, k, c) # remote.modules
           /\ remote' = [remote EXCEPT !.modules = Retitled(@, id, k, c)]
    /\ UNCHANGED <<args, FORCE, NO_VIDEO, creds, tokenJson, dirs, files, pc, stack, run, snap,
                   fetched, trace, last, raised, envFault, san>>

InitRetitle == Init /\ remote \in RetitleRemotes

NextRetitle ==
    \/ Next
    \/ \E id \in ContainerIds, c \in GainedChars : Retitle(id, c)

SpecRetitle == InitRetitle /\ [][NextRetitle]_vars

----------------------------------------------------------------------------
(* All-courses mode (-bsa): brightspace_all over the enrollment listing *)

\* an item of r.json()["Items"]: i['OrgUnit'] Name, Id and Type Name, and the
\* content/root listing of that org unit
Item(name, id, type, modules) == [Name |-> name, Id |-> id, Type |-> type, modules |-> modules]

\* The enrollment listings checked: a course with a folder and the locator u, an org
\* unit that is no course offering, a course with one unhandled topic, an empty course.
Enrollments(u) ==
    <<Item("k1", <<"C", "1">>, "Course Offering", BsCourse(u, TRUE)),
      Item("g1", <<"G", "1">>, "Group", <<>>),
      Item("k2", <<"C", "2">>, "Course Offering",
           <<Module("m3", <<"M", "3">>, <<Topic("d", <<"d">>, UrlOther)>>)>>),
      Item("k3", <<"C", "3">>, "Course Offering", <<>>)>>

AllRemotes ==
    {[platform |-> "bs", google |-> FALSE, modules |-> <<>>,
      gc |-> GcCourse(Material("link", "g", <<"g">>, UrlOther)), Items |-> Enrollments(u)] :
         u \in {UrlNative, UrlOther, UrlDrive}}

InitAll ==
    /\ remote \in AllRemotes
    /\ tokenJson \in BOOLEAN
    /\ args = NoArgs
    /\ FORCE = "None"
    /\ NO_VIDEO = "None"
    /\ creds = "unbound"
    /\ dirs = {<<Downloads>>}
    /\ files = NoFiles
    /\ pc = "idle"
    /\ stack = <<>>
    /\ run = 0
    /\ snap = NoSnap
    /\ fetched = {}
    /\ trace = <<>>
    /\ last = NoLast
    /\ raised = "none"
    /\ envFault = FALSE
    /\ san = NoSan

\* The script run with -bsa (lines 652-655): check_brightspace_args (456-481)
StartAll(force, novideo) ==
    /\ pc \in {"idle", "done", "aborted"}
    /\ run < MaxRuns
    /\ args' = [brightspace |-> FALSE, classroom |-> FALSE, force |-> force,
                novideo |-> novideo, google |-> remote.google]
    /\ FORCE' = PyBool(force)
    /\ NO_VIDEO' = PyBool(novideo)
    /\ creds' = IF remote.google /\ ~tokenJson THEN "bound" ELSE "unbound"
    /\ tokenJson' = (tokenJson \/ remote.google)
    /\ pc' = "all"
    /\ run' = run + 1
    /\ snap' = [files |-> files, dirs |-> dirs, args |-> args, pc |-> pc, fetched |-> fetched]
    /\ stack' = <<>>
    /\ fetched' = {}
    /\ trace' = <<>>
    /\ last' = NoLast
    /\ raised' = "none"
    /\ UNCHANGED <<remote, dirs, files, envFault, san>>

\* brightspace_all, lines 448-451: the enrollment listing, filtered, becomes the loop
brightspace_all ==
    /\ pc = "all"
    /\ stack' = <<Frame("courses", <<Downloads>>, "none",
                        SelectSeq(remote.Items, LAMBDA i : i.Type = "Course Offering"))>>
    /\ pc' = "walk"
    /\ UNCHANGED <<args, FORCE, NO_VIDEO, creds, tokenJson, remote, dirs, files, run, snap,
                   fetched, trace, last, raised, envFault, san>>

\* the loop body of brightspace_all carries on after a course whose root listing
\* cannot be parsed
AllCourseKeepGoing(rootOk) ==
    /\ pc = "walk"
    /\ stack # <<>>
    /\ Top.kind = "courses"
    /\ Top.todo # <<>>
    /\ LET i   == Head(Top.todo)
           dir == <<Downloads, i.Id>>
       IN  /\ dirs' = dirs \cup {dir}
           /\ trace' = Append(trace, i.Name)
           /\ IF rootOk
              THEN /\ files' = WriteFile(WriteFile(WriteFile(WriteFile(files,
                                   Append(dir, <<"brightspace.ct">>), <<>>),
                                   Append(dir, <<"info.json">>), <<<<"modules">>>>),
                                   Append(dir, <<"classlist.json">>), <<<<"classlist">>>>),
                                   Append(dir, <<"announcements.html">>), <<<<"announcements">>>>)
                   /\ stack' = <<Frame("modules", dir, "none", i.modules)>> \o Advance
                   /\ raised' = raised
              ELSE /\ files' = WriteFile(files, Append(dir, <<"brightspace.ct">>), <<>>)
                   /\ stack' = Advance
                   /\ raised' = "SystemExit"
           /\ pc' = pc
    /\ UNCHANGED <<args, FORCE, NO_VIDEO, creds, tokenJson, remote, run, snap, fetched,
                   last, envFault, san>>

\* brightspace_all, lines 451-453, calling download_brightspace (265-298) for the next
\* course: base folder, marker, root listing, snapshots
AllCourse(rootOk) ==
    /\ pc = "walk"
    /\ stack # <<>>
    /\ Top.kind = "courses"
    /\ Top.todo # <<>>
    /\ LET i   == Head(Top.todo)
           dir == <<Downloads, i.Id>>
       IN  /\ dirs' = dirs \cup {dir}
           /\ trace' = Append(trace, i.Name)
           /\ IF rootOk
              THEN /\ files' = WriteFile(WriteFile(WriteFile(WriteFile(files,
                                   Append(dir, <<"brightspace.ct">>), <<>>),
                                   Append(dir, <<"info.json">>), <<<<"modules">>>>),
                                   Append(dir, <<"classlist.json">>), <<<<"classlist">>>>),
                                   Append(dir, <<"announcements.html">>), <<<<"announcements">>>>)
                   /\ stack' = <<Frame("modules", dir, "none", i.modules)>> \o Advance
                   /\ pc' = pc
                   /\ raised' = raised
              ELSE /\ files' = WriteFile(files, Append(dir, <<"brightspace.ct">>), <<>>)
                   /\ stack' = <<>>
                   /\ pc' = "aborted"
                   /\ raised' = "SystemExit"
    /\ UNCHANGED <<args, FORCE, NO_VIDEO, creds, tokenJson, remote, run, snap, fetched,
                   last, envFault, san>>

NextAll ==
    \/ \E force, novideo \in BOOLEAN : StartAll(force, novideo)
    \/ brightspace_all
    \/ \E rootOk \in BOOLEAN : AllCourse(rootOk)
    \/ BsModule
    \/ BsFolder
    \/ \E net \in NetOutcomes, disk \in DiskOutcomes : BsFile(net, disk)
    \/ Return
    \/ Finish

SpecAll == InitAll /\ [][NextAll]_vars

----------------------------------------------------------------------------
(* The sanitizer on its own: every raw title up to MaxTitleLen over TitleChars *)

TitleChars == {"a", " ", "\n", "?", "/"}

InitSan ==
    /\ remote = [platform |-> "bs", google |-> FALSE, modules |-> <<>>,
                 gc |-> GcCourse(Material("link", "g", <<"g">>, UrlOther))]
    /\ tokenJson = FALSE
    /\ args = NoArgs
    /\ FORCE = "None"
    /\ NO_VIDEO = "None"
    /\ creds = "unbound"
    /\ dirs = {<<Downloads>>}
    /\ files = NoFiles
    /\ pc = "sanitize"
    /\ stack = <<>>
    /\ run = 0
    /\ snap = NoSnap
    /\ fetched = {}
    /\ trace = <<>>
    /\ last = NoLast
    /\ raised = "none"
    /\ envFault = FALSE
    /\ \E raw \in SeqsUpTo(TitleChars, MaxTitleLen) : san = [raw |-> raw, out |-> <<>>]

\* lines 118-119, 181-182, 304-305: title = raw.lstrip().rstrip(); banned characters removed
SanitizeTitle ==
    /\ pc = "sanitize"
    /\ san' = [raw |-> san.raw, out |-> Sanitize(san.raw)]
    /\ pc' = "sanitized"
    /\ UNCHANGED <<args, FORCE, NO_VIDEO, creds, tokenJson, remote, dirs, files, stack, run,
                   snap, fetched, trace, last, raised, envFault>>

NextSan == SanitizeTitle

SpecSan == InitSan /\ [][NextSan]_vars

----------------------------------------------------------------------------
(* Vocabulary of the properties.  The kinds are those of the design's classifier *)
(* (rules 1-5 in order), read off the locator alone.                            *)

Banned == {BANNED_CHARS[k] : k \in DOMAIN BANNED_CHARS}

Stepped == last.leaf.Id # "none"

OnBrightspace(l) == l.leaf.Kind = "topic"

HasLocator(l) == l.leaf.Url # Missing /\ l.leaf.Title # Missing

OnDocsHost(u) == Contains(u, "docs.google.com")
OnDriveHost(u) == Contains(u, "drive.google.com")
OnVideoHost(u) == Contains(u, "youtu.be") \/ Contains(u, "youtube.com")
HasExportParams(u) == Contains(u, "&rtpof=true&sd=true")
HasDocKeyword(u) == Contains(u, "document") \/ Contains(u, "presentation") \/ Contains(u, "spreadsheet")

RuleKind(u) ==
    IF u # <<>> /\ Head(u) = "/" THEN "native"
    ELSE IF (OnDriveHost(u) /\ ~Contains(u, "folders")) \/ (OnDocsHost(u) /\ HasExportParams(u)) THEN "drive"
    ELSE IF OnDocsHost(u) THEN (IF HasDocKeyword(u) THEN "doc" ELSE "unrecognized")
    ELSE IF OnVideoHost(u) THEN "video"
    ELSE "unrecognized"

KindOf(l) ==
    IF l.leaf.Kind = "youtubeVideo" THEN "video"
    ELSE IF l.leaf.Kind = "link" THEN "unrecognized"
    ELSE RuleKind(l.leaf.Url)

HasStrategy(l) == KindOf(l) \in {"native", "drive", "doc", "video"}

CleanTitle(l) == IF OnBrightspace(l) THEN Sanitize(l.leaf.Title) ELSE SanitizeGc(l.leaf.Title)

\* the strategy's target file
TargetOf(l) ==
    LET u == l.leaf.Url
        k == KindOf(l)
    IN  IF k = "native" THEN Append(l.path, CleanTitle(l) \o <<".">> \o SplitLast(u, "."))
        ELSE IF k = "drive" THEN Append(l.path, CleanTitle(l))
        ELSE IF k = "doc" THEN Append(l.path, CleanTitle(l) \o <<".", DocFormat(u)>>)
        ELSE Append(l.path, YtTitle(u) \o <<".", "mp4">>)

IsLog(p) == p[Len(p)] \in {<<"nothandled.txt">>, <<"errors.txt">>}

LinesOf(fs, p) == IF p \in DOMAIN fs THEN fs[p] ELSE <<>>

\* the call left every file as it was
Untouched(l) == l.after = l.before

\* the call created no content file
NoContentCreated(l) == \A p \in DOMAIN l.after \ DOMAIN l.before : IsLog(p)

\* the call appended exactly one line to exactly one log file, and changed nothing else
OneLogLine(l) ==
    \E p \in DOMAIN l.after :
        /\ IsLog(p)
        /\ Len(l.after[p]) = Len(LinesOf(l.before, p)) + 1
        /\ SubSeq(l.after[p], 1, Len(l.after[p]) - 1) = LinesOf(l.before, p)
        /\ \A q \in (DOMAIN l.after \cup DOMAIN l.before) \ {p} :
               q \in DOMAIN l.after /\ q \in DOMAIN l.before /\ l.after[q] = l.before[q]

\* the call appended the raw locator, and only it, to nothandled.txt of its directory
LocatorLogged(l) ==
    LET p == Append(l.path, <<"nothandled.txt">>)
    IN  /\ p \in DOMAIN l.after
        /\ l.after[p] = Append(LinesOf(l.before, p), l.leaf.Url)

----------------------------------------------------------------------------
(* Properties *)

\* C1 (Idempotence): when a sync that completed in non-force mode is run again with
\* the same arguments, the remote course unchanged and no network or disk failure,
\* the second run requests no leaf content and leaves the mirror as the first left it.
C1_Idempotent ==
    (pc = "done" /\ run >= 2 /\ snap.pc = "done" /\ args = snap.args /\ ~args.force /\ ~envFault)
        => (fetched = {} /\ files = snap.files /\ dirs = snap.dirs)

\* C2 (Force-override): in a run started with -f, every leaf that the classifier maps
\* to a strategy has its content requested again (videos not being disabled and no
\* failure met), whether or not its target file exists; on both platforms.
C2_ForceOverride ==
    (Stepped /\ args.force /\ ~args.novideo /\ HasLocator(last) /\ HasStrategy(last)
        /\ last.fault = "none")
        => last.fetch

\* C3 (Skip policy): outside force mode, a leaf whose strategy target file already
\* exists is skipped: no content request, no write, no line added to a log file.
C3_SkipExisting ==
    (Stepped /\ ~args.force /\ HasLocator(last) /\ HasStrategy(last)
        /\ TargetOf(last) \in DOMAIN last.before)
        => (~last.fetch /\ Untouched(last))

\* C4 (Isolation, continuation): a failure met while classifying or fetching one leaf
\* does not leave download_bs_file / download_gc_file, so the invocation goes on with
\* the next sibling.
C4_Isolation ==
    (Stepped /\ last.fault # "none") => (last.raised = "none" /\ pc # "aborted")

\* C5 (Isolation, logging): every per-item classification or fetch failure appends
\* exactly one line to a nothandled.txt or errors.txt file.
C5_FailureLogged ==
    (Stepped /\ last.fault # "none") => OneLogLine(last)

\* C6 (Classifier rule priority): on both platforms a docs.google.com locator carrying
\* the export parameters is handled as a cloud-drive file, also when it holds a
\* 'document', 'presentation' or 'spreadsheet' keyword.
C6_DriveBeforeDoc ==
    (Stepped /\ HasLocator(last) /\ last.leaf.Kind \in {"topic", "driveFile"}
        /\ OnDocsHost(last.leaf.Url) /\ HasExportParams(last.leaf.Url))
        => last.branch = "drive"

\* C7 (Unclassified items are never dropped): a leaf whose locator matches none of
\* the classifier rules (a Drive 'folders' link and a Classroom material that is
\* neither driveFile nor youtubeVideo included) gets exactly one line with the raw
\* locator appended to nothandled.txt, and no content file is created.
C7_UnclassifiedLogged ==
    (Stepped /\ HasLocator(last) /\ KindOf(last) = "unrecognized" /\ ~OnDocsHost(last.leaf.Url)
        /\ last.fault \notin {"net", "disk"})
        => (LocatorLogged(last) /\ OneLogLine(last) /\ NoContentCreated(last))

\* C8: a docs.google.com locator without export parameters and without any of the
\* three keywords is treated as a locator matching no rule: no content request, no
\* content file, the raw locator recorded in nothandled.txt.
C8_NoKeywordUnrecognized ==
    (Stepped /\ HasLocator(last) /\ last.leaf.Kind \in {"topic", "driveFile"}
        /\ OnDocsHost(last.leaf.Url) /\ ~HasExportParams(last.leaf.Url) /\ ~HasDocKeyword(last.leaf.Url))
        => (~last.fetch /\ NoContentCreated(last) /\ LocatorLogged(last))

\* C9 (Disabled video kind is a silent skip): with -nv on Brightspace, a leaf whose
\* locator is on youtu.be or youtube.com causes no video request, creates no file
\* and adds nothing to a log file.
C9_NoVideoSilent ==
    (Stepped /\ OnBrightspace(last) /\ args.novideo /\ HasLocator(last) /\ OnVideoHost(last.leaf.Url))
        => (~last.fetch /\ Untouched(last))

\* C10 (Sanitization), as stated: the derived name holds no banned character and is
\* non-empty unless the raw title was empty or consisted entirely of banned characters.
C10_SanitizedAsStated ==
    pc = "sanitized" =>
        /\ \A k \in DOMAIN san.out : san.out[k] \notin Banned
        /\ san.out = <<>> => \A k \in DOMAIN san.raw : san.raw[k] \in Banned

\* the raw title is whitespace, then banned characters only, then whitespace
OnlyBannedInsideWhitespace(raw) ==
    \E i \in 1..(Len(raw) + 1) : \E j \in (i - 1)..Len(raw) :
        /\ \A k \in 1..(i - 1) : raw[k] \in Whitespace
        /\ \A k \in i..j : raw[k] \in Banned
        /\ \A k \in (j + 1)..Len(raw) : raw[k] \in Whitespace

\* C10 (Sanitization), amended: the derived name holds no banned character and is
\* non-empty unless the raw title, apart from leading and trailing whitespace, was
\* empty or consisted entirely of banned characters.
C10_Sanitized ==
    pc = "sanitized" =>
        /\ \A k \in DOMAIN san.out : san.out[k] \notin Banned
        /\ san.out = <<>> => OnlyBannedInsideWhitespace(san.raw)

\* C10 witness: a title with leading whitespace, a banned and an ordinary character
\* has been sanitized to a non-empty name
C10_Witness ==
    /\ pc = "sanitized"
    /\ san.raw # <<>> /\ san.raw[1] \in Whitespace
    /\ \E k \in DOMAIN san.raw : san.raw[k] \in Banned
    /\ \E k \in DOMAIN san.raw : san.raw[k] \notin Banned \cup Whitespace
    /\ san.out # <<>>

----------------------------------------------------------------------------
(* Properties of the walker *)

RECURSIVE Preorder(_)
\* the ids of a list of remote nodes, each node followed by all its descendants
Preorder(nodes) ==
    IF nodes = <<>> THEN <<>>
    ELSE <<Head(nodes).Id>> \o Preorder(Head(nodes).Structure) \o Preorder(Tail(nodes))

IsPrefix(s, t) == Len(s) <= Len(t) /\ s = SubSeq(t, 1, Len(s))

\* C11 (Traversal order): at every moment of a Brightspace walk the nodes visited so
\* far are an initial part of the remote listing read depth-first in 'Structure'
\* order (a container, then all its descendants, then its next sibling), and a walk
\* that completes has visited exactly that listing.
C11_TraversalOrder ==
    args.brightspace =>
        /\ IsPrefix(trace, Preorder(remote.modules))
        /\ pc = "done" => trace = Preorder(remote.modules)

\* C11 witness: a completed walk went through a module, its folder, the folder's
\* topic, the folder's next sibling and the second module
C11_Witness ==
    /\ args.brightspace
    /\ pc = "done"
    /\ trace = <<"m1", "f", "b", "c", "m2">>

\* the file map without the course marker brightspace.ct
WithoutMarker(fs) == [q \in DOMAIN fs \ {Append(CourseDir, <<"brightspace.ct">>)} |-> fs[q]]

\* C12 (Fatal root-listing failure): when the root listing of the course cannot be
\* parsed, download_brightspace ends with SystemExit, and in that invocation no
\* directory besides the course's base folder is created, no leaf is classified or
\* fetched, and no file besides the course marker (so no info.json) is written.
C12_FatalRootListing ==
    (args.brightspace /\ raised = "SystemExit") =>
        /\ pc = "aborted"
        /\ dirs \ {CourseDir} = snap.dirs \ {CourseDir}
        /\ trace = <<>> /\ fetched = {} /\ ~Stepped
        /\ WithoutMarker(files) = WithoutMarker(snap.files)

\* C12 witness: a first invocation ended on an unparseable root listing, the base
\* folder and its marker being all there is
C12_Witness ==
    /\ args.brightspace /\ run = 1
    /\ pc = "aborted" /\ raised = "SystemExit"
    /\ CourseDir \in dirs
    /\ DOMAIN files = {Append(CourseDir, <<"brightspace.ct">>)}

\* C13 (Directory reuse): when a completed Brightspace sync is followed by another
\* completed sync, the remote course having changed at most by a container's title
\* gaining banned characters, every container is mapped to the directory it had:
\* the second sync creates no directory.
C13_DirectoryReuse ==
    (args.brightspace /\ pc = "done" /\ run >= 2 /\ snap.pc = "done") => dirs = snap.dirs

\* C14 (Token-provider failure is not fatal): a cloud-drive or cloud-document leaf for
\* which no credentials object is available fails alone: the call returns and the
\* invocation goes on with the next sibling.
C14_TokenFailureConfined ==
    (Stepped /\ last.branch \in {"drive", "doc"} /\ last.fault = "token")
        => (last.raised = "none" /\ pc = "walk")

RECURSIVE Containers(_, _)
\* the containers of a listing rooted at directory path, each with its directory
Containers(nodes, path) ==
    IF nodes = <<>> THEN {}
    ELSE LET n == Head(nodes)
             d == Dir(path, Sanitize(n.Title))
         IN  (IF n.Type = 0 THEN {[node |-> n, dir |-> d]} \cup Containers(n.Structure, d) ELSE {})
                 \cup Containers(Tail(nodes), path)

\* the container whose visit was the walker's latest visit, if it was a container's
JustVisited ==
    IF trace = <<>> THEN {}
    ELSE {c \in Containers(remote.modules, CourseDir) : c.node.Id = trace[Len(trace)]}

\* C15 (Container metadata): when the Brightspace walker has just visited a container,
\* the container's directory holds index.html with the container's title and
\* description, whether the visit created the directory or found it.
C15_ContainerMetadata ==
    (args.brightspace /\ pc = "walk") =>
        \A c \in JustVisited :
            /\ Append(c.dir, <<"index.html">>) \in DOMAIN files
            /\ files[Append(c.dir, <<"index.html">>)] = IndexHtml(c.node)

\* the call created or overwrote exactly one file, in its target directory, and
\* changed nothing else
OneFileWritten(l) ==
    \E p \in DOMAIN l.after :
        /\ SubSeq(p, 1, Len(p) - 1) = l.path
        /\ ~IsLog(p)
        /\ p \in DOMAIN l.before => l.after[p] # l.before[p]
        /\ \A q \in (DOMAIN l.after \cup DOMAIN l.before) \ {p} :
               q \in DOMAIN l.after /\ q \in DOMAIN l.before /\ l.after[q] = l.before[q]

\* C16 (Frame of one leaf item): one call of download_bs_file or download_gc_file
\* leaves the set of directories as it was and changes the files by at most one of:
\* creating or overwriting one file of the target directory, or appending one line
\* to a nothandled.txt or errors.txt file.
C16_LeafFrame ==
    [][(last' # last /\ last'.leaf.Id # "none") =>
           /\ dirs' = dirs
           /\ last'.before = files /\ last'.after = files'
           /\ Untouched(last') \/ OneFileWritten(last') \/ OneLogLine(last')]_vars

\* C16 witness: a leaf call has written one new file into its target directory
C16_Witness ==
    /\ Stepped
    /\ last.fetch
    /\ OneFileWritten(last)
    /\ DOMAIN last.after # DOMAIN last.before

\* the locators of the topics of container n that the current invocation finds unhandled
UnhandledIn(n) ==
    LET u == SelectSeq(n.Structure,
                 LAMBDA a : a.Type # 0 /\ download_bs_file(a, <<>>, "ok", "ok").branch = "nothandled")
    IN  [k \in 1..Len(u) |-> u[k].Url]

\* C17 (Unhandled log reflects only the current run): after a completed Brightspace
\* sync, nothandled.txt of every container directory, top-level or nested, new or
\* found, lists exactly the locators the sync found unhandled there.
C17_LogOfThisRun ==
    (args.brightspace /\ pc = "done") =>
        \A c \in Containers(remote.modules, CourseDir) :
            LinesOf(files, Append(c.dir, <<"nothandled.txt">>)) = UnhandledIn(c.node)

\* Next to C17: for nested folders, whose log line 192 removes on a later visit
NestedLogOfThisRun ==
    (args.brightspace /\ pc = "done") =>
        \A c \in Containers(remote.modules, CourseDir) :
            Len(c.dir) > Len(CourseDir) + 1 =>
                LinesOf(files, Append(c.dir, <<"nothandled.txt">>)) = UnhandledIn(c.node)

\* the course offerings of the enrollment listing, in its order
Offerings == SelectSeq(remote.Items, LAMBDA i : i.Type = "Course Offering")

RECURSIVE AllOrder(_)
\* each course followed by its whole content, depth-first
AllOrder(cs) ==
    IF cs = <<>> THEN <<>>
    ELSE <<Head(cs).Name>> \o Preorder(Head(cs).modules) \o AllOrder(Tail(cs))

Visited == {trace[k] : k \in DOMAIN trace}

Under(p, d) == Len(p) > Len(d) /\ SubSeq(p, 1, Len(d)) = d

\* the invocation has left the directory d and all below it as they were
NotSynced(d) ==
    /\ d \in dirs <=> d \in snap.dirs
    /\ \A q \in dirs \cup snap.dirs : Under(q, d) => (q \in dirs /\ q \in snap.dirs)
    /\ \A q \in DOMAIN files \cup DOMAIN snap.files :
           Under(q, d) => (q \in DOMAIN files /\ q \in DOMAIN snap.files /\ files[q] = snap.files[q])

\* C18 (All-courses mode ordering): brightspace_all visits the course offerings in the
\* order of the enrollment listing, the whole content of one course before the next
\* course is started; a course not yet started is untouched; and SystemExit on the
\* root listing of a course ends the invocation there, so that no later course is
\* started.
C18_AllCoursesOrder ==
    pc \in {"walk", "done", "aborted"} =>
        /\ IsPrefix(trace, AllOrder(Offerings))
        /\ pc = "done" => trace = AllOrder(Offerings)
        /\ \A k \in DOMAIN Offerings :
               Offerings[k].Name \notin Visited => NotSynced(<<Downloads, Offerings[k].Id>>)
        /\ raised = "SystemExit" =>
               /\ pc = "aborted" /\ stack = <<>>
               /\ \E k \in DOMAIN Offerings : trace[Len(trace)] = Offerings[k].Name

\* C18 witness: the first course was synced in full, the second ended the invocation
\* on its root listing, the third has no directory
C18_Witness ==
    /\ pc = "aborted" /\ raised = "SystemExit"
    /\ trace = <<"k1", "m1", "f", "b", "c", "m2", "k2">>
    /\ <<Downloads, <<"C", "3">>>> \notin dirs

----------------------------------------------------------------------------
(* Supporting properties: what holds of the code next to the properties above *)

\* Next to C3: outside force mode a leaf whose target file exists is skipped
\* silently, unless it is a video met while videos are disabled.
SkipExistingEnabledKinds ==
    (Stepped /\ ~args.force /\ HasLocator(last) /\ HasStrategy(last)
        /\ ~(args.novideo /\ KindOf(last) = "video")
        /\ TargetOf(last) \in DOMAIN last.before)
        => (~last.fetch /\ Untouched(last))

\* Next to C6: on Brightspace the cloud-drive rule is tried before the cloud-document rule.
DriveBeforeDocOnBrightspace ==
    (Stepped /\ HasLocator(last) /\ OnBrightspace(last)
        /\ OnDocsHost(last.leaf.Url) /\ HasExportParams(last.leaf.Url))
        => last.branch = "drive"

====
